---------------------------- MODULE Spec2Model ----------------------------
(***************************************************************************)
(* FlexConveyorSystem (src/src/flexconveyor_system.py): a conveyor grid    *)
(* kept as facts in a graph store, the parcel registry (get_parcels), the  *)
(* router (find_path), the conveyance engine (convey) and the parcel       *)
(* lifecycle (add_parcel, delete_parcel).                                  *)
(*                                                                         *)
(* Identifiers are IRIs, modelled as strings.  The store is a set of       *)
(* (subject, predicate, object) triples of strings.                        *)
(***************************************************************************)
EXTENDS Integers, Sequences, FiniteSets, TLC

VARIABLES
    store,             \* the facts held by the graph store
    binding_order,     \* the order in which the store returns the system's modules
    adjacency_matrix,  \* self.adjacency_matrix: ordered <<module, [n, e, s, w]>> pairs
    parcels,           \* self.parcels: parcel iri -> [current_position, destination]
    parcel_counter,    \* self.parcel_counter
    last,              \* the outcome of the last call on the instance
    path_result,       \* the last call of find_path: arguments and result
    instances,         \* how many instances have been constructed on the store
    procs              \* the processes around the store: the callers of the
                       \* instance with their position and locals, the store client

vars == <<store, binding_order, adjacency_matrix, parcels, parcel_counter, last,
          path_result, instances, procs>>

----------------------------------------------------------------------------
(* Vocabulary *)

hasPossession == "hasPossession"
isPossessedBy == "isPossessedBy"
hasDestination == "hasDestination"
rdfType == "rdf:type"
containsFlexConveyorModule == "containsFlexConveyorModule"
ClassParcel == "FlexConveyor#Parcel"
NamedIndividual == "owl#NamedIndividual"
system_iri == "exampleSystem1"

\* Python's None, and the wildcard of an unbound triples_get argument.
None == "None"
\* The empty parcel identifier convey uses when the module has no occupant.
EmptyIri == ""

\* Direction slots 1..4 of a connections list (Python indices 0..3).
directions == <<"north", "east", "south", "west">>

ConnectionPredicate(direction) ==
    CASE direction = "north" -> "hasNorthConnection"
      [] direction = "east" -> "hasEastConnection"
      [] direction = "south" -> "hasSouthConnection"
      [] direction = "west" -> "hasWestConnection"

\* Bounds of the model.
MaxCounter == 2
MaxRestarts == 1

\* f"...#parcel{n}": the decimal rendering of n appended to the prefix.
ParcelNames == <<"parcel1", "parcel2", "parcel3", "parcel4", "parcel5", "parcel6">>
ParcelIri(n) == ParcelNames[n]

Modules == {"module1", "module2"}
\* An identifier that is no module of the system.
UnknownModule == "moduleX"
ParcelIris == {ParcelIri(n) : n \in 1..(MaxCounter + 1)}

----------------------------------------------------------------------------
(* The store client *)

\* triples_get(sub, pred, obj): the facts matching the bound arguments.
triples_get(S, sub, pred, obj) ==
    {t \in S : /\ (sub = None \/ t[1] = sub)
               /\ (pred = None \/ t[2] = pred)
               /\ (obj = None \/ t[3] = obj)}

\* triples_add(triples): a batch insert, or a store error that inserts nothing.
triples_add(S, triples, storeOk) ==
    IF storeOk THEN [store |-> S \cup triples, raised |-> None]
    ELSE [store |-> S, raised |-> "StoreError"]

\* triples_delete(triples): a batch delete, or a store error that deletes nothing.
triples_delete(S, triples, storeOk) ==
    IF storeOk THEN [store |-> S \ triples, raised |-> None]
    ELSE [store |-> S, raised |-> "StoreError"]

\* triples_update(old, new, check_exist): an atomic replacement; with check_exist
\* it fails, changing nothing, when a member of old is not present.
triples_update(S, old, new, check_exist, storeOk) ==
    IF ~storeOk THEN [store |-> S, raised |-> "StoreError"]
    ELSE IF check_exist /\ ~(old \subseteq S)
         THEN [store |-> S, raised |-> "PreconditionError"]
         ELSE [store |-> (S \ old) \cup new, raised |-> None]

----------------------------------------------------------------------------
(* Topology Builder *)

\* The answer to the per-direction query: the first binding, or None.
ConnectionOf(S, module, direction) ==
    LET found == {t[3] : t \in triples_get(S, module, ConnectionPredicate(direction), None)}
    IN IF found = {} THEN None ELSE CHOOSE o \in found : TRUE

\* build_adjacency_matrix: for the modules of the system, in the order the
\* store returns them, the four connections.
build_adjacency_matrix(S, order) ==
    LET contained == {t[3] : t \in triples_get(S, system_iri, containsFlexConveyorModule, None)}
        modules_queried == SelectSeq(order, LAMBDA m : m \in contained)
    IN [i \in 1..Len(modules_queried) |->
           <<modules_queried[i],
             [d \in 1..4 |-> ConnectionOf(S, modules_queried[i], directions[d])]>>]

\* How the store client reports a query that failed: it raises, or it returns
\* no result document (None, or one without bindings).
QueryFailures == {"raises", "no result"}

\* build_adjacency_matrix when the store fails one of its queries.  The
\* queries are numbered in the order they are issued: 1 is the module query,
\* 1 + 4 * (i - 1) + d the query for direction d of the i-th module; failAt = 0
\* is no failure.  A query that raises ends the build, self.adjacency_matrix
\* not being assigned; a query without a result document counts as one
\* without bindings.
build_adjacency_matrix_failing(S, order, failAt, failure) ==
    LET contained == {t[3] : t \in triples_get(S, system_iri, containsFlexConveyorModule, None)}
        modules_queried ==
            IF failAt = 1 THEN <<>> ELSE SelectSeq(order, LAMBDA m : m \in contained)
        issued == 1 + 4 * Len(modules_queried)
    IN IF failAt \in 1..issued /\ failure = "raises"
       THEN [raised |-> "StoreError", installed |-> FALSE, adjacency_matrix |-> <<>>]
       ELSE [raised |-> None, installed |-> TRUE,
             adjacency_matrix |->
               [i \in 1..Len(modules_queried) |->
                  <<modules_queried[i],
                    [d \in 1..4 |->
                       IF failAt = 1 + 4 * (i - 1) + d THEN None
                       ELSE ConnectionOf(S, modules_queried[i], directions[d])]>>]]

\* dict operations on the adjacency model.
Keys(adj) == {adj[i][1] : i \in 1..Len(adj)}
Get(adj, module) ==
    IF module \in Keys(adj)
    THEN adj[CHOOSE i \in 1..Len(adj) : adj[i][1] = module][2]
    ELSE None

\* The store facts of a topology given as module -> connections list.
TopologyFacts(conns) ==
    {<<system_iri, containsFlexConveyorModule, m>> : m \in DOMAIN conns}
    \cup UNION {{<<m, ConnectionPredicate(directions[d]), conns[m][d]>> :
                     d \in {k \in 1..4 : conns[m][k] # None}} : m \in DOMAIN conns}

----------------------------------------------------------------------------
(* Parcel Lifecycle Manager *)

\* Mutant: the facts with the identifier as object are forgotten.
Mentioning_SubjectOnly(S, iri) == triples_get(S, iri, None, None)

\* The facts in which an identifier is subject or object.
Mentioning(S, iri) == triples_get(S, iri, None, None) \cup triples_get(S, None, None, iri)

\* Mutant: the batch delete is issued without the not-found check.
delete_parcel_NoFoundCheck(S, parcel_iri, storeOk) ==
    LET r == triples_delete(S, Mentioning(S, parcel_iri), storeOk)
    IN [store |-> r.store, raised |-> r.raised, sent |-> TRUE]

\* delete_parcel(parcel_iri): ValueError when no fact mentions the parcel and
\* nothing is deleted; otherwise one batch delete of every such fact.
delete_parcel(S, parcel_iri, storeOk) ==
    LET found == Mentioning(S, parcel_iri)
    IN IF found = {}
       THEN [store |-> S, raised |-> "ValueError", sent |-> FALSE]
       ELSE LET r == triples_delete(S, found, storeOk)
            IN [store |-> r.store, raised |-> r.raised, sent |-> TRUE]

\* The five facts add_parcel inserts for a parcel.
NewParcelTriples(parcel_iri, destination_iri, start_module_iri) ==
    { <<parcel_iri, rdfType, ClassParcel>>,
      <<parcel_iri, rdfType, NamedIndividual>>,
      <<parcel_iri, hasDestination, destination_iri>>,
      <<parcel_iri, isPossessedBy, start_module_iri>>,
      <<start_module_iri, hasPossession, parcel_iri>> }

\* Mutant: the identifier does not follow the counter.
MintedIri_First(counter) == ParcelIri(1)

\* The identifier add_parcel mints.
MintedIri(counter) == ParcelIri(counter + 1)

----------------------------------------------------------------------------
(* Parcel Registry *)

\* Mutant: the parcels of a module are read from either possession relation.
Occupants_EitherRelation(S, module) ==
    {t[3] : t \in triples_get(S, module, hasPossession, None)}
    \cup {t[1] : t \in triples_get(S, None, isPossessedBy, module)}

\* The parcels a module possesses, and the destinations of a parcel.
Occupants(S, module) == {t[3] : t \in triples_get(S, module, hasPossession, None)}
Destinations(S, parcel_iri) == {t[3] : t \in triples_get(S, parcel_iri, hasDestination, None)}

\* The first triple of a non-empty answer is any one of its triples: the
\* choices of one pass over the modules, and of one destination per parcel.
FirstPossession(S, adj) ==
    LET occupied == {m \in Keys(adj) : Occupants(S, m) # {}}
    IN {f \in [occupied -> UNION {Occupants(S, m) : m \in occupied}] :
          \A m \in occupied : f[m] \in Occupants(S, m)}
FirstDestination(S) ==
    LET withDest == {t[1] : t \in triples_get(S, None, hasDestination, None)}
    IN {f \in [withDest -> UNION {Destinations(S, p) : p \in withDest}] :
          \A p \in withDest : f[p] \in Destinations(S, p)}

\* self.parcels[parcel_iri] = {...}
Put(pm, key, value) == [k \in DOMAIN pm \cup {key} |-> IF k = key THEN value ELSE pm[k]]
\* del self.parcels[parcel_iri]
Del(pm, key) == [k \in DOMAIN pm \ {key} |-> pm[k]]
EmptyMap == [k \in {} |-> None]

\* The first loop of get_parcels: the modules in the order of the adjacency
\* model, one parcel per occupied module, a later module overwriting the entry
\* of an earlier one for the same parcel.
RECURSIVE ScanModules(_, _, _, _, _, _)
ScanModules(S, adj, i, first, firstDest, pm) ==
    IF i > Len(adj) THEN pm
    ELSE LET module == adj[i][1]
         IN IF Occupants(S, module) = {}
            THEN ScanModules(S, adj, i + 1, first, firstDest, pm)
            ELSE LET parcel_iri == first[module]
                     destination_iri ==
                         IF Destinations(S, parcel_iri) = {} THEN None
                         ELSE firstDest[parcel_iri]
                 IN ScanModules(S, adj, i + 1, first, firstDest,
                        Put(pm, parcel_iri, [current_position |-> module,
                                             destination |-> destination_iri]))

\* Mutant: the module is read from the facts the store held when the sync
\* began (a snapshot), not from the store as it is when the module is reached.
ScanOne_Snapshot(S, adj, i, first, firstDest, pm) ==
    LET begin == procs["p1"].begin
        module == adj[i][1]
    IN IF Occupants(begin, module) = {} THEN pm
       ELSE LET parcel_iri == CHOOSE P \in Occupants(begin, module) : TRUE
                destination_iri ==
                    IF Destinations(begin, parcel_iri) = {} THEN None
                    ELSE CHOOSE d \in Destinations(begin, parcel_iri) : TRUE
            IN Put(pm, parcel_iri, [current_position |-> module,
                                    destination |-> destination_iri])

\* One iteration of the first loop of get_parcels, for the i-th module of the
\* adjacency model, on the store as it is when the module is reached.
ScanOne(S, adj, i, first, firstDest, pm) ==
    LET module == adj[i][1]
    IN IF Occupants(S, module) = {} THEN pm
       ELSE LET parcel_iri == first[module]
                destination_iri ==
                    IF Destinations(S, parcel_iri) = {} THEN None
                    ELSE firstDest[parcel_iri]
            IN Put(pm, parcel_iri, [current_position |-> module,
                                    destination |-> destination_iri])

\* The parcels whose position is their destination.
parcels_to_delete(pm) ==
    {p \in DOMAIN pm : pm[p].current_position = pm[p].destination}

\* The body of the cleanup loop for one parcel: delete_parcel, then the entry
\* is dropped; an exception of delete_parcel is logged and the entry is kept.
CleanupOne(S, pm, parcel_iri, storeOk) ==
    LET r == delete_parcel(S, parcel_iri, storeOk)
    IN IF r.raised = None
       THEN [store |-> r.store, parcels |-> Del(pm, parcel_iri)]
       ELSE [store |-> S, parcels |-> pm]

\* Mutant: the loop ends at the first deletion that fails.
RECURSIVE Cleanup_AbortOnFailure(_, _, _, _)
Cleanup_AbortOnFailure(S, pm, todo, failing) ==
    IF todo = {} THEN [store |-> S, parcels |-> pm]
    ELSE LET parcel_iri == CHOOSE p \in todo : TRUE
             r == CleanupOne(S, pm, parcel_iri, parcel_iri \notin failing)
         IN IF parcel_iri \in failing THEN [store |-> S, parcels |-> pm]
            ELSE Cleanup_AbortOnFailure(r.store, r.parcels, todo \ {parcel_iri}, failing)

\* The cleanup loop; failing is the set of parcels whose deletion the store
\* rejects.
RECURSIVE Cleanup(_, _, _, _)
Cleanup(S, pm, todo, failing) ==
    IF todo = {} THEN [store |-> S, parcels |-> pm]
    ELSE LET parcel_iri == CHOOSE p \in todo : TRUE
             r == CleanupOne(S, pm, parcel_iri, parcel_iri \notin failing)
         IN Cleanup(r.store, r.parcels, todo \ {parcel_iri}, failing)

\* get_parcels: the new store and the new self.parcels, which is returned.
get_parcels(S, adj, first, firstDest, failing) ==
    LET pm == ScanModules(S, adj, 1, first, firstDest, EmptyMap)
    IN Cleanup(S, pm, parcels_to_delete(pm), failing)

\* add_parcel(destination_iri, start_module_iri): the batch insert; when it
\* succeeds the counter is incremented (the caller then refreshes the parcels).
add_parcel(S, counter, destination_iri, start_module_iri, storeOk) ==
    LET r == triples_add(S, NewParcelTriples(MintedIri(counter), destination_iri,
                                             start_module_iri), storeOk)
    IN [store |-> r.store, raised |-> r.raised,
        parcel_counter |-> IF r.raised = None THEN counter + 1 ELSE counter]

----------------------------------------------------------------------------
(* Conveyance Engine *)

\* Mutant: the direction defaults to north when no slot matches.
DirectionIndex_DefaultNorth(connections, next_module_iri) ==
    LET hits == {idx \in 1..Len(connections) : connections[idx] = next_module_iri}
    IN IF hits = {} THEN 1 ELSE CHOOSE idx \in hits : \A j \in hits : idx <= j

\* The slot whose target is next_module_iri: the first such index, 0 if none.
DirectionIndex(connections, next_module_iri) ==
    LET hits == {idx \in 1..Len(connections) : connections[idx] = next_module_iri}
    IN IF hits = {} THEN 0 ELSE CHOOSE idx \in hits : \A j \in hits : idx <= j

\* What convey reads first: the occupant of current_module, "" if none.
ReadOccupant(S, current_module) ==
    IF Occupants(S, current_module) = {} THEN {EmptyIri} ELSE Occupants(S, current_module)

triples_to_delete(current_module, parcel_iri) ==
    { <<current_module, hasPossession, parcel_iri>>,
      <<parcel_iri, isPossessedBy, current_module>> }
\* Mutant: the inverse fact of the target is left out.
triples_to_insert_NoInverse(next_module_iri, parcel_iri) ==
    { <<next_module_iri, hasPossession, parcel_iri>> }
triples_to_insert(next_module_iri, parcel_iri) ==
    { <<next_module_iri, hasPossession, parcel_iri>>,
      <<parcel_iri, isPossessedBy, next_module_iri>> }

\* Mutant: the update is sent without the check of the old facts.
ConveyCheckExist_Off == FALSE

\* The check_exist argument convey passes to triples_update.
ConveyCheckExist == TRUE

\* Mutant: an update the store did not accept is sent a second time, the
\* store then being reachable.
convey_RetryOnce(S, adj, current_module, next_module_iri, parcel_iri, storeOk) ==
    LET connections == Get(adj, current_module)
    IN IF current_module \notin Keys(adj)
       THEN [store |-> S, raised |-> "ValueError", sent |-> FALSE, direction |-> None]
       ELSE LET idx == DirectionIndex(connections, next_module_iri)
            IN IF idx = 0
               THEN [store |-> S, raised |-> "ValueError", sent |-> FALSE, direction |-> None]
               ELSE LET r1 == triples_update(S,
                                  triples_to_delete(current_module, parcel_iri),
                                  triples_to_insert(next_module_iri, parcel_iri),
                                  ConveyCheckExist, storeOk)
                        r == IF r1.raised = None THEN r1
                             ELSE triples_update(S,
                                      triples_to_delete(current_module, parcel_iri),
                                      triples_to_insert(next_module_iri, parcel_iri),
                                      ConveyCheckExist, TRUE)
                    IN [store |-> r.store, raised |-> r.raised, sent |-> TRUE,
                        direction |-> directions[idx]]

\* convey after the occupant was read: validation of the move, then the one
\* conditioned update.  sent tells whether an update was issued.
convey(S, adj, current_module, next_module_iri, parcel_iri, storeOk) ==
    LET connections == Get(adj, current_module)
    IN IF current_module \notin Keys(adj)
       THEN [store |-> S, raised |-> "ValueError", sent |-> FALSE, direction |-> None]
       ELSE LET idx == DirectionIndex(connections, next_module_iri)
            IN IF idx = 0
               THEN [store |-> S, raised |-> "ValueError", sent |-> FALSE, direction |-> None]
               ELSE LET r == triples_update(S,
                                 triples_to_delete(current_module, parcel_iri),
                                 triples_to_insert(next_module_iri, parcel_iri),
                                 ConveyCheckExist, storeOk)
                    IN [store |-> r.store, raised |-> r.raised, sent |-> TRUE,
                        direction |-> directions[idx]]

----------------------------------------------------------------------------
(* Router *)

\* float("infinity"): larger than every distance of a finite graph.
Infinity == 1000000

\* Python's order on the identifiers (string comparison), by which heappop
\* breaks ties between entries of equal distance.
IriOrder == <<"module1", "module2", "module3", "module4", "moduleX">>
IriRank(iri) == CHOOSE i \in 1..Len(IriOrder) : IriOrder[i] = iri

\* (d1, m1) < (d2, m2) as Python compares tuples.
TupleLess(a, b) == a[1] < b[1] \/ (a[1] = b[1] /\ IriRank(a[2]) < IriRank(b[2]))

\* The entry heapq.heappop returns: the least (distance, module) tuple.
HeapMin(pq) == CHOOSE a \in pq : \A b \in pq : a = b \/ TupleLess(a, b)

\* graph[module_id]: the connections that are not None, in slot order.
GraphOf(adj, module) ==
    IF module \in Keys(adj)
    THEN SelectSeq(Get(adj, module), LAMBDA c : c # None)
    ELSE <<>>

\* Mutant: every neighbour is recorded and pushed, without the checks of the
\* visited set and of the distance known so far.
RECURSIVE Relax_Unguarded(_, _, _, _, _, _)
Relax_Unguarded(neighbours, i, current_module, current_distance, visited, d) ==
    IF i > Len(neighbours) \/ d.raised # None THEN d
    ELSE LET neighbor == neighbours[i]
             distance == current_distance + 1
         IN IF neighbor \notin DOMAIN d.distances
            THEN [d EXCEPT !.raised = "KeyError"]
            ELSE Relax_Unguarded(neighbours, i + 1, current_module, current_distance,
                     visited,
                     [d EXCEPT !.distances[neighbor] = distance,
                               !.previous[neighbor] = current_module,
                               !.pq = @ \cup {<<distance, neighbor>>}])

\* The inner loop of the search over the neighbours of the popped module, from
\* slot i on.  d is a record of distances, previous, pq and raised; a
\* neighbour that is no key of distances raises KeyError.
RECURSIVE Relax(_, _, _, _, _, _)
Relax(neighbours, i, current_module, current_distance, visited, d) ==
    IF i > Len(neighbours) \/ d.raised # None THEN d
    ELSE LET neighbor == neighbours[i]
             distance == current_distance + 1
         IN IF neighbor \in visited
            THEN Relax(neighbours, i + 1, current_module, current_distance, visited, d)
            ELSE IF neighbor \notin DOMAIN d.distances
            THEN [d EXCEPT !.raised = "KeyError"]
            ELSE IF distance < d.distances[neighbor]
            THEN Relax(neighbours, i + 1, current_module, current_distance, visited,
                       [d EXCEPT !.distances[neighbor] = distance,
                                 !.previous[neighbor] = current_module,
                                 !.pq = @ \cup {<<distance, neighbor>>}])
            ELSE Relax(neighbours, i + 1, current_module, current_distance, visited, d)

\* The while loop of the search.  The heap is a set of tuples: an entry is
\* pushed only with a distance smaller than the one recorded, so no tuple is
\* pushed twice.  expanded lists the modules whose neighbours were examined.
RECURSIVE Search(_, _, _)
Search(adj, target_module_iri, d) ==
    IF d.pq = {} \/ d.raised # None THEN d
    ELSE LET top == HeapMin(d.pq)
             current_distance == top[1]
             current_module == top[2]
             popped == [d EXCEPT !.pq = @ \ {top}]
         IN IF current_module \in d.visited
            THEN Search(adj, target_module_iri, popped)
            ELSE LET marked == [popped EXCEPT !.visited = @ \cup {current_module}]
                 IN IF current_module = target_module_iri
                    THEN marked
                    ELSE Search(adj, target_module_iri,
                             Relax(GraphOf(adj, current_module), 1, current_module,
                                   current_distance, marked.visited,
                                   [marked EXCEPT !.expanded = Append(@, current_module)]))

\* Mutant: the path is returned as it was read, from the target backwards.
RECURSIVE PathTo_Unreversed(_, _, _)
PathTo_Unreversed(previous, current, fuel) ==
    IF current = None THEN <<>>
    ELSE IF fuel = 0 THEN <<"(endless)">>
    ELSE <<current>> \o PathTo_Unreversed(previous, previous[current], fuel - 1)

\* The path read backwards from previous[], then reversed; fuel, the number of
\* modules plus one, is used up only by a chain that never reaches None.
RECURSIVE PathTo(_, _, _)
PathTo(previous, current, fuel) ==
    IF current = None THEN <<>>
    ELSE IF fuel = 0 THEN <<"(endless)">>
    ELSE Append(PathTo(previous, previous[current], fuel - 1), current)

\* The state of the search when its loop ends.
Dijkstra(adj, start_module_iri, target_module_iri) ==
    Search(adj, target_module_iri,
           [distances |-> [m \in Keys(adj) |-> IF m = start_module_iri THEN 0 ELSE Infinity],
            previous |-> [m \in Keys(adj) |-> None],
            pq |-> {<<0, start_module_iri>>},
            visited |-> {},
            expanded |-> <<>>,
            raised |-> None])

\* The value find_path returns when it found no path, and when an argument is
\* no module of the model: None in both cases.
ReturnNone == [raised |-> None, none |-> TRUE, path |-> <<>>]

\* What a call of find_path did: the value it returned or the exception it
\* raised, and whether it ran the search (reached the while loop).
Outcome(value, searched) ==
    [raised |-> value.raised, none |-> value.none, path |-> value.path,
     searched |-> searched]

\* Mutant: the single-node return for start = target is left out.
find_path_NoShortcut(adj, start_module_iri, target_module_iri) ==
    IF start_module_iri \notin Keys(adj) THEN Outcome(ReturnNone, FALSE)
    ELSE IF target_module_iri \notin Keys(adj) THEN Outcome(ReturnNone, FALSE)
    ELSE LET d == Dijkstra(adj, start_module_iri, target_module_iri)
         IN IF d.raised # None
            THEN Outcome([raised |-> d.raised, none |-> FALSE, path |-> <<>>], TRUE)
            ELSE IF d.distances[target_module_iri] = Infinity
            THEN Outcome(ReturnNone, TRUE)
            ELSE Outcome([raised |-> None, none |-> FALSE,
                          path |-> PathTo(d.previous, target_module_iri, Len(adj) + 1)],
                         TRUE)

\* find_path(start_module_iri, target_module_iri).
find_path(adj, start_module_iri, target_module_iri) ==
    IF start_module_iri \notin Keys(adj) THEN Outcome(ReturnNone, FALSE)
    ELSE IF target_module_iri \notin Keys(adj) THEN Outcome(ReturnNone, FALSE)
    ELSE IF start_module_iri = target_module_iri
    THEN Outcome([raised |-> None, none |-> FALSE, path |-> <<start_module_iri>>], FALSE)
    ELSE LET d == Dijkstra(adj, start_module_iri, target_module_iri)
         IN IF d.raised # None
            THEN Outcome([raised |-> d.raised, none |-> FALSE, path |-> <<>>], TRUE)
            ELSE IF d.distances[target_module_iri] = Infinity
            THEN Outcome(ReturnNone, TRUE)
            ELSE Outcome([raised |-> None, none |-> FALSE,
                          path |-> PathTo(d.previous, target_module_iri, Len(adj) + 1)],
                         TRUE)

----------------------------------------------------------------------------
(* The system: one instance, its calls serialized *)

\* The topologies the store may hold: module -> [north, east, south, west].
LoopTopology ==
    [m \in Modules |->
        CASE m = "module1" -> <<None, "module2", None, None>>
          [] m = "module2" -> <<None, None, None, "module1">>]
ForkTopology ==
    [m \in Modules |->
        CASE m = "module1" -> <<"module2", None, "module2", None>>
          [] m = "module2" -> <<None, None, None, None>>]
Topologies == {LoopTopology, ForkTopology}
BindingOrders == {<<"module1", "module2">>}

\* What a caller may pass for a module, and for a parcel.
ModuleArgs == Modules \cup {UnknownModule}
ParcelArgs == ParcelIris

\* The outcome of a call: the exception it raised (None if it returned) and
\* whether it issued a mutating call to the store.
Call(op, raised, sent) == [op |-> op, raised |-> raised, sent |-> sent]

NoProcs == [p \in {} |-> None]
NoPath == [start |-> None, target |-> None, raised |-> None, none |-> TRUE, path |-> <<>>,
           searched |-> FALSE]

Init ==
    /\ \E topology \in Topologies : store = TopologyFacts(topology)
    /\ binding_order \in BindingOrders
    /\ adjacency_matrix = build_adjacency_matrix(store, binding_order)
    /\ parcels = EmptyMap
    /\ parcel_counter = 0
    /\ last = Call("__init__", None, FALSE)
    /\ path_result = NoPath
    /\ instances = 1
    /\ procs = NoProcs

\* get_parcels() with the choices the store's answers leave open.
GetParcelsWith(first, firstDest, failing, op) ==
    LET r == get_parcels(store, adjacency_matrix, first, firstDest, failing)
    IN /\ store' = r.store
       /\ parcels' = r.parcels
       /\ last' = Call(op, None, r.store # store)

\* Mutant: the sync derives the counter from the parcels it has read.
SyncCall_Reseed ==
    \E first \in FirstPossession(store, adjacency_matrix),
       firstDest \in FirstDestination(store) :
      \E failing \in SUBSET parcels_to_delete(
                       ScanModules(store, adjacency_matrix, 1, first, firstDest, EmptyMap)) :
        /\ GetParcelsWith(first, firstDest, failing, "get_parcels")
        /\ parcel_counter' = Cardinality(DOMAIN parcels')
        /\ UNCHANGED <<binding_order, adjacency_matrix, path_result, instances>>

\* sync(): a call of get_parcels; what it does to the instance and the store.
SyncCall ==
    \E first \in FirstPossession(store, adjacency_matrix),
       firstDest \in FirstDestination(store) :
      \E failing \in SUBSET parcels_to_delete(
                       ScanModules(store, adjacency_matrix, 1, first, firstDest, EmptyMap)) :
        /\ GetParcelsWith(first, firstDest, failing, "get_parcels")
        /\ UNCHANGED <<binding_order, adjacency_matrix, parcel_counter, path_result, instances>>

Sync == SyncCall /\ UNCHANGED procs

\* __init__ of a new instance on the store as it is (a restart of the process,
\* a new session of the front end): the adjacency model is built, the parcels
\* are read, arrival cleanup included, and the counter is seeded with their
\* number.
Restart ==
    /\ instances <= MaxRestarts
    /\ instances' = instances + 1
    /\ LET adj == build_adjacency_matrix(store, binding_order)
       IN \E first \in FirstPossession(store, adj), firstDest \in FirstDestination(store) :
            \E failing \in SUBSET parcels_to_delete(
                             ScanModules(store, adj, 1, first, firstDest, EmptyMap)) :
              LET r == get_parcels(store, adj, first, firstDest, failing)
              IN /\ adjacency_matrix' = adj
                 /\ store' = r.store
                 /\ parcels' = r.parcels
                 /\ parcel_counter' = Cardinality(DOMAIN r.parcels)
                 /\ last' = Call("__init__", None, r.store # store)
                 /\ UNCHANGED <<binding_order, path_result, procs>>

\* convey(current_module, next_module_iri) having read parcel_iri as the
\* occupant, the read and the update not interleaved with any other writer.
ConveyCall(current_module, next_module_iri, parcel_iri, storeOk) ==
    LET r == convey(store, adjacency_matrix, current_module, next_module_iri,
                    parcel_iri, storeOk)
    IN /\ store' = r.store
       /\ last' = Call("convey", r.raised, r.sent)
       /\ UNCHANGED <<binding_order, adjacency_matrix, parcels, parcel_counter,
                      path_result, instances>>

ConveyWith(current_module, next_module_iri, parcel_iri, storeOk) ==
    ConveyCall(current_module, next_module_iri, parcel_iri, storeOk) /\ UNCHANGED procs

Convey(current_module, next_module_iri) ==
    \E parcel_iri \in ReadOccupant(store, current_module), storeOk \in BOOLEAN :
      ConveyWith(current_module, next_module_iri, parcel_iri, storeOk)

\* add_parcel(destination_iri, start_module_iri): the insert, then the counter
\* and the refresh of the parcels; a store error is raised before both.
AddParcelCall(destination_iri, start_module_iri, storeOk) ==
    LET a == add_parcel(store, parcel_counter, destination_iri, start_module_iri, storeOk)
    IN IF a.raised # None
       THEN /\ last' = Call("add_parcel", a.raised, TRUE)
            /\ UNCHANGED <<store, binding_order, adjacency_matrix, parcels,
                           parcel_counter, path_result, instances>>
       ELSE \E first \in FirstPossession(a.store, adjacency_matrix),
               firstDest \in FirstDestination(a.store) :
              \E failing \in SUBSET parcels_to_delete(
                     ScanModules(a.store, adjacency_matrix, 1, first, firstDest, EmptyMap)) :
                LET r == get_parcels(a.store, adjacency_matrix, first, firstDest, failing)
                IN /\ store' = r.store
                   /\ parcels' = r.parcels
                   /\ parcel_counter' = a.parcel_counter
                   /\ last' = Call("add_parcel", None, TRUE)
                   /\ UNCHANGED <<binding_order, adjacency_matrix, path_result, instances>>

AddParcelWith(destination_iri, start_module_iri, storeOk) ==
    AddParcelCall(destination_iri, start_module_iri, storeOk) /\ UNCHANGED procs

AddParcel(destination_iri, start_module_iri) ==
    /\ parcel_counter < MaxCounter
    /\ \E storeOk \in BOOLEAN : AddParcelWith(destination_iri, start_module_iri, storeOk)

\* delete_parcel(parcel_iri), called by the user of the instance.
DeleteParcelCall(parcel_iri, storeOk) ==
    LET r == delete_parcel(store, parcel_iri, storeOk)
    IN /\ store' = r.store
       /\ last' = Call("delete_parcel", r.raised, r.sent)
       /\ UNCHANGED <<binding_order, adjacency_matrix, parcels, parcel_counter,
                      path_result, instances>>

DeleteParcelWith(parcel_iri, storeOk) ==
    DeleteParcelCall(parcel_iri, storeOk) /\ UNCHANGED procs

DeleteParcel(parcel_iri) == \E storeOk \in BOOLEAN : DeleteParcelWith(parcel_iri, storeOk)

Next ==
    \/ Sync
    \/ \E current_module \in ModuleArgs, next_module_iri \in ModuleArgs :
         Convey(current_module, next_module_iri)
    \/ \E destination_iri \in Modules, start_module_iri \in Modules :
         AddParcel(destination_iri, start_module_iri)
    \/ \E parcel_iri \in ParcelArgs : DeleteParcel(parcel_iri)

Spec == Init /\ [][Next]_vars

\* The same, the instance being replaced by a new one up to MaxRestarts times.
NextRestart ==
    \/ Next
    \/ Restart

SpecRestart == Init /\ [][NextRestart]_vars

----------------------------------------------------------------------------
(* The router on a family of adjacency models *)

PathModules == {"module1", "module2", "module3"}
PathArgs == PathModules \cup {UnknownModule}
PathBindingOrder == <<"module1", "module2", "module3">>
MaxDegree == 2

\* A connections list holding the neighbours N, from slot offset + 1 on.
ConnectionsFor(N, offset) ==
    LET seq == SelectSeq(IriOrder, LAMBDA m : m \in N)
    IN [d \in 1..4 |->
          LET k == ((d - 1 - offset) % 4) + 1
          IN IF k <= Len(seq) THEN seq[k] ELSE None]

\* The topologies in which every module has at most MaxDegree neighbours,
\* among the modules and one identifier that is no module of the system.
PathTopologies ==
    {[m \in PathModules |-> ConnectionsFor(f[m], IriRank(m) - 1)] :
        f \in [PathModules -> {N \in SUBSET PathArgs : Cardinality(N) <= MaxDegree}]}

InitPath ==
    /\ \E topology \in PathTopologies : store = TopologyFacts(topology)
    /\ binding_order = PathBindingOrder
    /\ adjacency_matrix = build_adjacency_matrix(store, binding_order)
    /\ parcels = EmptyMap
    /\ parcel_counter = 0
    /\ last = Call("__init__", None, FALSE)
    /\ path_result = NoPath
    /\ instances = 1
    /\ procs = NoProcs

\* Mutant: find_path drops the empty slots from the lists of the adjacency
\* model itself instead of building its own graph.
FindPathCall_InPlace(start_module_iri, target_module_iri) ==
    LET r == find_path(adjacency_matrix, start_module_iri, target_module_iri)
    IN /\ path_result' = [start |-> start_module_iri, target |-> target_module_iri,
                          raised |-> r.raised, none |-> r.none, path |-> r.path,
                          searched |-> r.searched]
       /\ last' = Call("find_path", r.raised, FALSE)
       /\ adjacency_matrix' =
            [i \in 1..Len(adjacency_matrix) |->
                <<adjacency_matrix[i][1], GraphOf(adjacency_matrix, adjacency_matrix[i][1])>>]
       /\ UNCHANGED <<store, binding_order, parcels, parcel_counter, instances>>

\* A call of find_path(start_module_iri, target_module_iri).
FindPathCall(start_module_iri, target_module_iri) ==
    LET r == find_path(adjacency_matrix, start_module_iri, target_module_iri)
    IN /\ path_result' = [start |-> start_module_iri, target |-> target_module_iri,
                          raised |-> r.raised, none |-> r.none, path |-> r.path,
                          searched |-> r.searched]
       /\ last' = Call("find_path", r.raised, FALSE)
       /\ UNCHANGED <<store, binding_order, adjacency_matrix, parcels, parcel_counter,
                      instances>>

FindPath(start_module_iri, target_module_iri) ==
    FindPathCall(start_module_iri, target_module_iri) /\ UNCHANGED procs

NextPath ==
    \E start_module_iri \in PathArgs, target_module_iri \in PathArgs :
      FindPath(start_module_iri, target_module_iri)

SpecPath == InitPath /\ [][NextPath]_vars

----------------------------------------------------------------------------
(* A caller routing parcels over the ring of four modules *)

RingModules == {"module1", "module2", "module3", "module4"}
RingBindingOrder == <<"module1", "module2", "module3", "module4">>
\* The modules at which the caller puts parcels on the ring.
RingEntrances == {"module1", "module3"}

\* module1 -east-> module2 -south-> module3 -west-> module4 -north-> module1.
RingTopology ==
    [m \in RingModules |->
        CASE m = "module1" -> <<None, "module2", None, None>>
          [] m = "module2" -> <<None, None, "module3", None>>
          [] m = "module3" -> <<None, None, None, "module4">>
          [] m = "module4" -> <<"module1", None, None, None>>]

\* The caller's position and locals: the parcel it added, the path it was
\* given, the index of the module of the path it conveys from next, and
\* whether every convey so far has moved that parcel.
RingIdle == [pc |-> "idle", parcel_iri |-> None, path |-> <<>>, i |-> 0, conveyed |-> FALSE]

InitRing ==
    /\ store = TopologyFacts(RingTopology)
    /\ binding_order = RingBindingOrder
    /\ adjacency_matrix = build_adjacency_matrix(store, binding_order)
    /\ parcels = EmptyMap
    /\ parcel_counter = 0
    /\ last = Call("__init__", None, FALSE)
    /\ path_result = NoPath
    /\ instances = 1
    /\ procs = [main |-> RingIdle]

\* system.add_parcel(destination, start); the caller remembers the minted id.
RingAdd(destination_iri, start_module_iri) ==
    /\ procs.main.pc = "idle"
    /\ parcel_counter < MaxCounter
    /\ \E storeOk \in BOOLEAN : AddParcelCall(destination_iri, start_module_iri, storeOk)
    /\ procs' = IF last'.raised = None
                THEN [main |-> [RingIdle EXCEPT !.pc = "added",
                                                !.parcel_iri = MintedIri(parcel_counter)]]
                ELSE procs

\* path = system.find_path(parcel["current_position"], parcel["destination"])
\* for the parcel as the parcel map holds it.
RingFindPath ==
    /\ procs.main.pc = "added"
    /\ procs.main.parcel_iri \in DOMAIN parcels
    /\ LET parcel == parcels[procs.main.parcel_iri]
       IN FindPathCall(parcel.current_position, parcel.destination)
    /\ procs' = IF path_result'.raised = None /\ ~path_result'.none
                THEN [main |-> [procs.main EXCEPT !.pc = "routed",
                                                  !.path = path_result'.path,
                                                  !.i = 1,
                                                  !.conveyed = TRUE]]
                ELSE [main |-> [procs.main EXCEPT !.pc = "failed"]]

\* system.convey(path[i], path[i + 1]): the next step along the path.
RingConvey ==
    /\ procs.main.pc = "routed"
    /\ procs.main.i < Len(procs.main.path)
    /\ \E parcel_iri \in ReadOccupant(store, procs.main.path[procs.main.i]),
          storeOk \in BOOLEAN :
         /\ ConveyCall(procs.main.path[procs.main.i], procs.main.path[procs.main.i + 1],
                       parcel_iri, storeOk)
         /\ procs' = IF last'.raised = None
                     THEN [main |-> [procs.main EXCEPT
                                       !.i = @ + 1,
                                       !.conveyed = @ /\ parcel_iri = procs.main.parcel_iri]]
                     ELSE [main |-> [procs.main EXCEPT !.pc = "failed"]]

\* system.get_parcels() once the last module of the path has been reached.
RingSync ==
    /\ procs.main.pc = "routed"
    /\ procs.main.i = Len(procs.main.path)
    /\ SyncCall
    /\ procs' = [main |-> [procs.main EXCEPT !.pc = "synced"]]

\* system.delete_parcel(parcel_iri) for the parcel the caller added.
RingDelete ==
    /\ procs.main.pc \in {"added", "synced", "failed"}
    /\ \E storeOk \in BOOLEAN : DeleteParcelCall(procs.main.parcel_iri, storeOk)
    /\ procs' = [main |-> [procs.main EXCEPT !.pc = "deleted"]]

\* The caller turns to another parcel.
RingReturn ==
    /\ procs.main.pc \in {"added", "synced", "failed", "deleted"}
    /\ procs' = [main |-> RingIdle]
    /\ UNCHANGED <<store, binding_order, adjacency_matrix, parcels, parcel_counter,
                   last, path_result, instances>>

NextRing ==
    \/ \E destination_iri \in RingModules, start_module_iri \in RingEntrances :
         RingAdd(destination_iri, start_module_iri)
    \/ RingFindPath
    \/ RingConvey
    \/ RingSync
    \/ RingDelete
    \/ RingReturn

SpecRing == InitRing /\ [][NextRing]_vars

----------------------------------------------------------------------------
(* The construction of an instance on a store whose queries may fail *)

\* No instance has been constructed.
NotCalled == Call("(none)", None, FALSE)
\* What the store did during the last construction: the number of the query
\* it failed (0 if none) and how it reported the failure.
StoreHealthy == [failAt |-> 0, failure |-> None]

InitBuild ==
    /\ \E topology \in PathTopologies : store = TopologyFacts(topology)
    /\ binding_order = PathBindingOrder
    /\ adjacency_matrix = <<>>
    /\ parcels = EmptyMap
    /\ parcel_counter = 0
    /\ last = NotCalled
    /\ path_result = NoPath
    /\ instances = 0
    /\ procs = [client |-> StoreHealthy]

\* FlexConveyorSystem(system_iri), called once: the adjacency model is built,
\* then the parcels are read and the counter is seeded; an exception of the
\* build leaves no instance.
Construct(failAt, failure) ==
    /\ instances = 0
    /\ last = NotCalled
    /\ LET b == build_adjacency_matrix_failing(store, binding_order, failAt, failure)
       IN IF b.raised # None
          THEN /\ last' = Call("__init__", b.raised, FALSE)
               /\ UNCHANGED <<store, adjacency_matrix, parcels, parcel_counter, instances>>
          ELSE \E first \in FirstPossession(store, b.adjacency_matrix),
                  firstDest \in FirstDestination(store) :
                 LET r == get_parcels(store, b.adjacency_matrix, first, firstDest, {})
                 IN /\ adjacency_matrix' = b.adjacency_matrix
                    /\ store' = r.store
                    /\ parcels' = r.parcels
                    /\ parcel_counter' = Cardinality(DOMAIN r.parcels)
                    /\ instances' = 1
                    /\ last' = Call("__init__", None, r.store # store)
    /\ procs' = [client |-> [failAt |-> failAt, failure |-> IF failAt = 0 THEN None ELSE failure]]
    /\ UNCHANGED <<binding_order, path_result>>

\* The queries a build on the three modules issues.
BuildQueries == 1..(1 + 4 * Len(PathBindingOrder))

NextBuild ==
    \/ Construct(0, None)
    \/ \E failAt \in BuildQueries, failure \in QueryFailures : Construct(failAt, failure)

SpecBuild == InitBuild /\ [][NextBuild]_vars

----------------------------------------------------------------------------
(* An instance on a store that holds parcel facts it did not insert *)

\* A parcel without a destination fact, possessed by module.
NoDestinationParcel == ParcelIri(1)
NoDestinationFacts(module) ==
    { <<NoDestinationParcel, rdfType, ClassParcel>>,
      <<NoDestinationParcel, rdfType, NamedIndividual>>,
      <<NoDestinationParcel, isPossessedBy, module>>,
      <<module, hasPossession, NoDestinationParcel>> }

\* add_incorrect_data(db): the one fact "parcel2 isPossessedBy <module>",
\* without its inverse.
add_incorrect_data(module) == { <<ParcelIri(2), isPossessedBy, module>> }

\* A parcel possessed by an identifier that is no module of the system.
OutsideParcel == ParcelIri(3)
OutsideFacts(destination_iri) ==
    NewParcelTriples(OutsideParcel, destination_iri, UnknownModule)

\* The parcel facts the store may hold when the instance is constructed.
ForeignStores ==
    {NoDestinationFacts(m) : m \in Modules}
    \cup {add_incorrect_data(m) : m \in Modules \cup {UnknownModule}}
    \cup {OutsideFacts(d) : d \in Modules}
    \cup {NoDestinationFacts(m) \cup add_incorrect_data(m) : m \in Modules}

\* The instance as __init__ leaves it on such a store: the adjacency model,
\* the parcels of the first sync and the counter seeded with their number.
InitForeign ==
    /\ \E foreign \in ForeignStores : store = TopologyFacts(LoopTopology) \cup foreign
    /\ binding_order \in BindingOrders
    /\ adjacency_matrix = build_adjacency_matrix(store, binding_order)
    /\ \E first \in FirstPossession(store, adjacency_matrix),
          firstDest \in FirstDestination(store) :
         LET r == get_parcels(store, adjacency_matrix, first, firstDest, {})
         IN /\ r.store = store
            /\ parcels = r.parcels
            /\ parcel_counter = Cardinality(DOMAIN r.parcels)
    /\ last = Call("__init__", None, FALSE)
    /\ path_result = NoPath
    /\ instances = 1
    /\ procs = NoProcs

SpecForeign == InitForeign /\ [][NextRestart]_vars

----------------------------------------------------------------------------
(* Two processes conveying on one store *)

Procs == {"p1", "p2"}
ConcModules == {"module1", "module2", "module3"}
ConcBindingOrder == <<"module1", "module2", "module3">>

\* module1 leads to itself, to module2 and to module3.
ConcTopology ==
    [m \in ConcModules |->
        CASE m = "module1" -> <<"module1", "module2", "module3", None>>
          [] m = "module2" -> <<None, None, "module3", "module1">>
          [] m = "module3" -> <<"module1", None, None, None>>]

Idle == [pc |-> "idle", current_module |-> None, next_module_iri |-> None,
         parcel_iri |-> None, raised |-> None, sent |-> FALSE, changed |-> FALSE]

\* One parcel has been added and has not arrived; each process holds an
\* instance built on that store.
InitConc ==
    /\ \E start \in ConcModules, dest \in ConcModules :
         /\ dest # start
         /\ store = TopologyFacts(ConcTopology) \cup NewParcelTriples(ParcelIri(1), dest, start)
         /\ parcels = Put(EmptyMap, ParcelIri(1),
                          [current_position |-> start, destination |-> dest])
    /\ binding_order = ConcBindingOrder
    /\ adjacency_matrix = build_adjacency_matrix(store, binding_order)
    /\ parcel_counter = 1
    /\ last = Call("__init__", None, FALSE)
    /\ path_result = NoPath
    /\ instances = 1
    /\ procs = [p \in Procs |-> Idle]

\* Process p enters convey(current_module, next_module_iri) and reads the
\* occupant of current_module.
ConveyRead(p, current_module, next_module_iri) ==
    /\ procs[p].pc = "idle"
    /\ \E parcel_iri \in ReadOccupant(store, current_module) :
         procs' = [procs EXCEPT ![p] = [Idle EXCEPT !.pc = "read",
                                                     !.current_module = current_module,
                                                     !.next_module_iri = next_module_iri,
                                                     !.parcel_iri = parcel_iri]]
    /\ UNCHANGED <<store, binding_order, adjacency_matrix, parcels, parcel_counter,
                   last, path_result, instances>>

\* Process p validates the move and sends the conditioned update for the
\* parcel it read, then returns or raises.
ConveyUpdate(p) ==
    /\ procs[p].pc = "read"
    /\ LET r == convey(store, adjacency_matrix, procs[p].current_module,
                       procs[p].next_module_iri, procs[p].parcel_iri, TRUE)
       IN /\ store' = r.store
          /\ procs' = [procs EXCEPT ![p].pc = "done",
                                    ![p].raised = r.raised,
                                    ![p].sent = r.sent,
                                    ![p].changed = (r.store # store)]
    /\ UNCHANGED <<binding_order, adjacency_matrix, parcels, parcel_counter,
                   last, path_result, instances>>

NextConc ==
    \/ \E p \in Procs, current_module \in ConcModules, next_module_iri \in ConcModules :
         ConveyRead(p, current_module, next_module_iri)
    \/ \E p \in Procs : ConveyUpdate(p)

SpecConc == InitConc /\ [][NextConc]_vars

----------------------------------------------------------------------------
(* An instance syncing, adding and deleting while another process conveys *)

\* p1 runs the instance whose parcels and counter are modelled; every call of
\* the store client is a step of its own.  p2 conveys with an instance of its
\* own on the same store.
MainIdle ==
    [pc |-> "idle", op |-> None, i |-> 0, todo |-> {}, parcel_iri |-> None,
     subject_triples |-> {}, object_triples |-> {}, caller |-> None,
     raised |-> None, begin |-> {}, seen |-> {}]

\* The positions of p1 inside a sync.
SyncPositions == {"scan", "cleanup", "delete_subject", "delete_object", "delete_send"}
InSync(main) == main.pc \in SyncPositions /\ main.op # None

\* p2 between two calls of convey; conveys counts the calls it has finished.
MaxConveys == 1
OtherIdle == [pc |-> "idle", current_module |-> None, next_module_iri |-> None,
              parcel_iri |-> None, conveys |-> 0]

\* The instance of p1 has added its parcels up to the last but one the model
\* allows; the latest of them is in the store and has not arrived.
InitShared ==
    /\ \E start \in ConcModules, dest \in ConcModules :
         /\ dest # start
         /\ store = TopologyFacts(ConcTopology)
                      \cup NewParcelTriples(ParcelIri(MaxCounter - 1), dest, start)
         /\ parcels = Put(EmptyMap, ParcelIri(MaxCounter - 1),
                          [current_position |-> start, destination |-> dest])
    /\ binding_order = ConcBindingOrder
    /\ adjacency_matrix = build_adjacency_matrix(store, binding_order)
    /\ parcel_counter = MaxCounter - 1
    /\ last = Call("__init__", None, FALSE)
    /\ path_result = NoPath
    /\ instances = 1
    /\ procs = [p \in Procs |-> IF p = "p1" THEN MainIdle ELSE OtherIdle]

\* get_parcels() is entered: self.parcels = {}.
SyncBegin ==
    /\ procs["p1"].pc = "idle"
    /\ parcels' = EmptyMap
    /\ procs' = [procs EXCEPT !["p1"] = [MainIdle EXCEPT !.pc = "scan",
                                                         !.op = "get_parcels",
                                                         !.i = 1,
                                                         !.begin = store,
                                                         !.seen = {store}]]
    /\ UNCHANGED <<store, binding_order, adjacency_matrix, parcel_counter, last,
                   path_result, instances>>

\* add_parcel(destination_iri, start_module_iri): the batch insert and the
\* counter; then get_parcels() is entered.
AddInsert(destination_iri, start_module_iri) ==
    /\ procs["p1"].pc = "idle"
    /\ parcel_counter < MaxCounter
    /\ \E storeOk \in BOOLEAN :
         LET a == add_parcel(store, parcel_counter, destination_iri, start_module_iri,
                             storeOk)
         IN IF a.raised # None
            THEN /\ last' = Call("add_parcel", a.raised, TRUE)
                 /\ UNCHANGED <<store, parcels, parcel_counter, procs>>
            ELSE /\ store' = a.store
                 /\ parcel_counter' = a.parcel_counter
                 /\ parcels' = EmptyMap
                 /\ procs' = [procs EXCEPT !["p1"] = [MainIdle EXCEPT !.pc = "scan",
                                                                      !.op = "add_parcel",
                                                                      !.i = 1,
                                                                      !.begin = a.store,
                                                                      !.seen = {a.store}]]
                 /\ UNCHANGED last
    /\ UNCHANGED <<binding_order, adjacency_matrix, path_result, instances>>

\* The next module of the adjacency model is read.
SyncRead ==
    /\ procs["p1"].pc = "scan"
    /\ procs["p1"].i <= Len(adjacency_matrix)
    /\ \E first \in FirstPossession(store, adjacency_matrix),
          firstDest \in FirstDestination(store) :
         parcels' = ScanOne(store, adjacency_matrix, procs["p1"].i, first, firstDest, parcels)
    /\ procs' = [procs EXCEPT !["p1"].i = @ + 1]
    /\ UNCHANGED <<store, binding_order, adjacency_matrix, parcel_counter, last,
                   path_result, instances>>

\* Every module has been read: the arrived parcels are listed.
SyncDecide ==
    /\ procs["p1"].pc = "scan"
    /\ procs["p1"].i > Len(adjacency_matrix)
    /\ procs' = [procs EXCEPT !["p1"].pc = "cleanup",
                              !["p1"].todo = parcels_to_delete(parcels)]
    /\ UNCHANGED <<store, binding_order, adjacency_matrix, parcels, parcel_counter,
                   last, path_result, instances>>

\* The cleanup loop calls delete_parcel for the next arrived parcel.
CleanupNext ==
    /\ procs["p1"].pc = "cleanup"
    /\ \E parcel_iri \in procs["p1"].todo :
         procs' = [procs EXCEPT !["p1"].pc = "delete_subject",
                                !["p1"].caller = "get_parcels",
                                !["p1"].parcel_iri = parcel_iri,
                                !["p1"].todo = @ \ {parcel_iri}]
    /\ UNCHANGED <<store, binding_order, adjacency_matrix, parcels, parcel_counter,
                   last, path_result, instances>>

\* get_parcels returns self.parcels (and with it add_parcel, if it called).
SyncReturn ==
    /\ procs["p1"].pc = "cleanup"
    /\ procs["p1"].todo = {}
    /\ last' = Call(procs["p1"].op, None, procs["p1"].op = "add_parcel")
    /\ procs' = [procs EXCEPT !["p1"] = MainIdle]
    /\ UNCHANGED <<store, binding_order, adjacency_matrix, parcels, parcel_counter,
                   path_result, instances>>

\* delete_parcel(parcel_iri) is called by the user of the instance.
DeleteBegin(parcel_iri) ==
    /\ procs["p1"].pc = "idle"
    /\ procs' = [procs EXCEPT !["p1"] = [MainIdle EXCEPT !.pc = "delete_subject",
                                                         !.caller = "user",
                                                         !.parcel_iri = parcel_iri]]
    /\ UNCHANGED <<store, binding_order, adjacency_matrix, parcels, parcel_counter,
                   last, path_result, instances>>

\* subject_triples = self.db.triples_get(sub=parcel_iri)
DeleteReadSubject ==
    /\ procs["p1"].pc = "delete_subject"
    /\ procs' = [procs EXCEPT
                   !["p1"].pc = "delete_object",
                   !["p1"].subject_triples =
                       triples_get(store, procs["p1"].parcel_iri, None, None)]
    /\ UNCHANGED <<store, binding_order, adjacency_matrix, parcels, parcel_counter,
                   last, path_result, instances>>

\* object_triples = self.db.triples_get(obj=parcel_iri)
DeleteReadObject ==
    /\ procs["p1"].pc = "delete_object"
    /\ procs' = [procs EXCEPT
                   !["p1"].pc = "delete_send",
                   !["p1"].object_triples =
                       triples_get(store, None, None, procs["p1"].parcel_iri)]
    /\ UNCHANGED <<store, binding_order, adjacency_matrix, parcels, parcel_counter,
                   last, path_result, instances>>

\* What delete_parcel does with the facts it has read: ValueError when there
\* are none, otherwise the batch delete of exactly those facts.
DeleteRead(S, found, storeOk) ==
    IF found = {}
    THEN [store |-> S, raised |-> "ValueError", sent |-> FALSE]
    ELSE LET r == triples_delete(S, found, storeOk)
         IN [store |-> r.store, raised |-> r.raised, sent |-> TRUE]

\* The not-found check and the batch delete.  Called by the user, delete_parcel
\* returns or raises; called by the cleanup loop, the entry of the parcel is
\* dropped if it returned, and the loop goes on either way.
DeleteSend ==
    /\ procs["p1"].pc = "delete_send"
    /\ \E storeOk \in BOOLEAN :
         LET main == procs["p1"]
             r == DeleteRead(store, main.subject_triples \cup main.object_triples, storeOk)
         IN /\ store' = r.store
            /\ IF main.caller = "user"
               THEN /\ last' = Call("delete_parcel", r.raised, r.sent)
                    /\ procs' = [procs EXCEPT !["p1"] = MainIdle]
                    /\ UNCHANGED parcels
               ELSE /\ parcels' = IF r.raised = None THEN Del(parcels, main.parcel_iri)
                                  ELSE parcels
                    /\ procs' = [procs EXCEPT !["p1"].pc = "cleanup",
                                              !["p1"].raised = r.raised,
                                              !["p1"].seen = @ \cup {r.store}]
                    /\ UNCHANGED last
    /\ UNCHANGED <<binding_order, adjacency_matrix, parcel_counter, path_result, instances>>

\* p2 enters convey(current_module, next_module_iri) and reads the occupant.
OtherConveyRead(current_module, next_module_iri) ==
    /\ procs["p2"].pc = "idle"
    /\ procs["p2"].conveys < MaxConveys
    /\ \E parcel_iri \in ReadOccupant(store, current_module) :
         procs' = [procs EXCEPT !["p2"].pc = "read",
                                !["p2"].current_module = current_module,
                                !["p2"].next_module_iri = next_module_iri,
                                !["p2"].parcel_iri = parcel_iri]
    /\ UNCHANGED <<store, binding_order, adjacency_matrix, parcels, parcel_counter,
                   last, path_result, instances>>

\* p2 validates the move and sends the conditioned update, and convey returns
\* or raises; a sync of p1 in progress has the new facts of the store among
\* those it ran on.
OtherConveyUpdate ==
    /\ procs["p2"].pc = "read"
    /\ LET r == convey(store, adjacency_matrix, procs["p2"].current_module,
                       procs["p2"].next_module_iri, procs["p2"].parcel_iri, TRUE)
       IN /\ store' = r.store
          /\ procs' = [procs EXCEPT !["p2"] = [OtherIdle EXCEPT
                                                !.conveys = procs["p2"].conveys + 1],
                                    !["p1"].seen = IF InSync(procs["p1"])
                                                   THEN @ \cup {r.store} ELSE @]
    /\ UNCHANGED <<binding_order, adjacency_matrix, parcels, parcel_counter,
                   last, path_result, instances>>

\* Where p1 puts parcels on the grid, and the parcels it asks to delete.
SharedEntrances == {"module1"}
SharedParcelArgs == {ParcelIri(n) : n \in (MaxCounter - 1)..MaxCounter}

NextShared ==
    \/ SyncBegin
    \/ \E destination_iri \in ConcModules, start_module_iri \in SharedEntrances :
         AddInsert(destination_iri, start_module_iri)
    \/ SyncRead
    \/ SyncDecide
    \/ CleanupNext
    \/ SyncReturn
    \/ \E parcel_iri \in SharedParcelArgs : DeleteBegin(parcel_iri)
    \/ DeleteReadSubject
    \/ DeleteReadObject
    \/ DeleteSend
    \/ \E current_module \in ConcModules, next_module_iri \in ConcModules :
         OtherConveyRead(current_module, next_module_iri)
    \/ OtherConveyUpdate

SpecShared == InitShared /\ [][NextShared]_vars

----------------------------------------------------------------------------
(* Properties *)

\* A directed edge of the adjacency model: B is in one of A's four slots.
HasEdge(adj, A, B) ==
    /\ A \in Keys(adj)
    /\ \E d \in 1..4 : Get(adj, A)[d] = B

\* The parcels the store knows: the identifiers typed as parcels or possessed.
ParcelsOf(S) ==
    {t[1] : t \in triples_get(S, None, rdfType, ClassParcel)}
    \cup {t[3] : t \in triples_get(S, None, hasPossession, None)}
    \cup {t[1] : t \in triples_get(S, None, isPossessedBy, None)}

\* The modules that possess a parcel, by either possession relation.
HoldersOf(S, parcel_iri) ==
    {t[1] : t \in triples_get(S, None, hasPossession, parcel_iri)}
    \cup {t[3] : t \in triples_get(S, parcel_iri, isPossessedBy, None)}

\* C1: after any call of get_parcels, also one in which the store rejected the
\* deletion of an arrived parcel, the returned map holds no parcel whose
\* current_position equals its destination.
C1_NoArrivedParcelReturned ==
    last.op = "get_parcels" =>
        \A p \in DOMAIN parcels : parcels[p].current_position # parcels[p].destination

\* C2: convey(A, B) over an edge A -> B with parcel P on A succeeds and
\* replaces exactly the two possession facts of P on A by those on B; every
\* other fact of the store is unchanged.
C2_ConveyMovesPossession ==
    [][last'.op = "convey" =>
       \A A \in Modules, B \in Modules, P \in ParcelIris :
          (/\ HasEdge(adjacency_matrix, A, B)
           /\ P \in Occupants(store, A)
           /\ ConveyWith(A, B, P, TRUE))
          => /\ last'.raised = None
             /\ store' = (store \ {<<A, hasPossession, P>>, <<P, isPossessedBy, A>>})
                           \cup {<<B, hasPossession, P>>, <<P, isPossessedBy, B>>}
             /\ store' \ store = {<<B, hasPossession, P>>, <<P, isPossessedBy, B>>}
             /\ store \ store' = {<<A, hasPossession, P>>, <<P, isPossessedBy, A>>}]_vars

\* A convey has succeeded and its parcel sits on the target while another
\* parcel's facts are in the store.
C2_Witness ==
    /\ last.op = "convey" /\ last.raised = None /\ last.sent
    /\ \E m \in Modules, p \in ParcelIris, q \in ParcelIris :
         /\ p # q
         /\ <<m, hasPossession, p>> \in store
         /\ <<p, isPossessedBy, m>> \in store
         /\ q \in ParcelsOf(store)

\* C3: convey(A, B) where no slot of A's edge list equals B (A need not be a
\* module of the model) fails with a usage error, sends nothing to the store
\* and leaves its facts as they were: a step of convey either is such a
\* rejection or is the step of no call without an edge.
C3_InvalidMoveRejected ==
    [][last'.op = "convey" =>
       \/ /\ last'.raised = "ValueError"
          /\ ~last'.sent
          /\ store' = store
       \/ \A A \in ModuleArgs, B \in ModuleArgs, storeOk \in BOOLEAN :
            \A P \in ReadOccupant(store, A) :
              ~HasEdge(adjacency_matrix, A, B) => ~ConveyWith(A, B, P, storeOk)]_vars

\* A convey was rejected as invalid while a parcel was in the system.
C3_Witness ==
    /\ last.op = "convey" /\ last.raised = "ValueError" /\ ~last.sent
    /\ \E m \in Modules : Occupants(store, m) # {}

\* Both processes have finished a convey from the same module A over edges of
\* the model, and A was occupied when the first of them read it.
BothConveyedFrom(p, q) ==
    /\ p # q
    /\ procs[p].pc = "done" /\ procs[q].pc = "done"
    /\ procs[p].current_module = procs[q].current_module
    /\ procs[p].sent /\ procs[q].sent
    /\ (procs[p].parcel_iri # EmptyIri \/ procs[q].parcel_iri # EmptyIri)

\* One of the two updates succeeded; the other met a precondition failure and
\* changed nothing.
OneWinner(p, q) ==
    \/ /\ procs[p].raised = None
       /\ procs[q].raised = "PreconditionError" /\ ~procs[q].changed
    \/ /\ procs[q].raised = None
       /\ procs[p].raised = "PreconditionError" /\ ~procs[p].changed

\* The parcel is possessed by exactly one module, in both relations.
PossessedByOne(S, parcel_iri) ==
    \E m \in ConcModules :
      /\ {t[1] : t \in triples_get(S, None, hasPossession, parcel_iri)} = {m}
      /\ {t[3] : t \in triples_get(S, parcel_iri, isPossessedBy, None)} = {m}

C5_AddYieldsOneFreshParcel ==
    [][last'.op = "add_parcel" =>
       \A dest \in Modules, start \in Modules :
          (/\ dest # start
           /\ Occupants(store, start) = {}
           /\ AddParcelWith(dest, start, TRUE))
          => LET new == DOMAIN parcels' \ ParcelsOf(store)
             IN /\ Cardinality(new) = 1
                /\ \A p \in new :
                     parcels'[p] = [current_position |-> start, destination |-> dest]]_vars

\* C6: every parcel is possessed by exactly one module and no module
\* possesses more than one parcel, in every state reached by serialized
\* add_parcel, convey, delete_parcel and sync calls.
C6_OneToOneOccupancy ==
    /\ \A p \in ParcelsOf(store) : Cardinality(HoldersOf(store, p)) = 1
    /\ \A m \in Modules : Cardinality(Occupants(store, m)) <= 1

\* C7: delete_parcel(id) for an id no fact mentions fails with the not-found
\* error, issues no delete and leaves the store unchanged: a step of
\* delete_parcel either is such a rejection or is the step of no call with an
\* id that no fact mentions.
C7_DeleteUnknownRejected ==
    [][last'.op = "delete_parcel" =>
       \/ /\ last'.raised = "ValueError"
          /\ ~last'.sent
          /\ store' = store
       \/ \A id \in ParcelArgs, storeOk \in BOOLEAN :
            (\A t \in store : t[1] # id /\ t[3] # id) => ~DeleteParcelWith(id, storeOk)]_vars

\* A delete_parcel was rejected as not found while other parcels existed.
C7_Witness ==
    /\ last.op = "delete_parcel" /\ last.raised = "ValueError" /\ ~last.sent
    /\ ParcelsOf(store) # {}

Successors(adj, module) == {Get(adj, module)[d] : d \in 1..4} \cap Keys(adj)

\* The least number of edges from a module of frontier to target, frontier
\* being the modules at distance k from the start; Infinity if there is none.
RECURSIVE HopsFrom(_, _, _, _, _)
HopsFrom(adj, frontier, seen, target, k) ==
    IF target \in frontier THEN k
    ELSE LET next == UNION {Successors(adj, m) : m \in frontier} \ seen
         IN IF next = {} THEN Infinity
            ELSE HopsFrom(adj, next, seen \cup next, target, k + 1)
HopDistance(adj, S, T) == HopsFrom(adj, {S}, {S}, T, 0)

\* C9: for modules S # T of the model, find_path(S, T) returns a sequence of
\* length shortest-hop-distance + 1 when T is reachable from S, and returns
\* no path exactly when T is unreachable.
C9_ShortestPathLength ==
    (/\ last.op = "find_path"
     /\ path_result.start \in Keys(adjacency_matrix)
     /\ path_result.target \in Keys(adjacency_matrix)
     /\ path_result.start # path_result.target)
    => LET hops == HopDistance(adjacency_matrix, path_result.start, path_result.target)
       IN /\ path_result.raised = None
          /\ path_result.none <=> hops = Infinity
          /\ hops # Infinity => Len(path_result.path) - 1 = hops

\* C10: find_path with a start or target that is no module of the model
\* returns a result that differs from the one it returns when no path exists.
C10_UnknownModuleDistinct ==
    (/\ last.op = "find_path"
     /\ \/ path_result.start \notin Keys(adjacency_matrix)
        \/ path_result.target \notin Keys(adjacency_matrix))
    => [raised |-> path_result.raised, none |-> path_result.none,
        path |-> path_result.path] # ReturnNone

\* C11: for every module X of the adjacency model, find_path(X, X) returns the
\* single-element path <<X>> and does not run the search, whatever X's four
\* slots hold (nothing, no self-loop, an identifier that is no module).
C11_SelfPathIsSingleton ==
    (/\ last.op = "find_path"
     /\ path_result.start \in Keys(adjacency_matrix)
     /\ path_result.target = path_result.start)
    => /\ path_result.raised = None
       /\ ~path_result.none
       /\ path_result.path = <<path_result.start>>
       /\ ~path_result.searched

\* find_path(X, X) has returned <<X>> for a module X without any outgoing edge.
C11_Witness ==
    /\ last.op = "find_path"
    /\ path_result.start \in Keys(adjacency_matrix)
    /\ path_result.target = path_result.start
    /\ path_result.path = <<path_result.start>>
    /\ \A d \in 1..4 : Get(adjacency_matrix, path_result.start)[d] = None

\* The caller has conveyed its parcel along the whole of a path of more than
\* one module that find_path returned for it, and has called sync.
ConveyedAlongPath ==
    /\ procs.main.pc = "synced"
    /\ procs.main.conveyed
    /\ Len(procs.main.path) > 1

\* C12: on the ring, for a parcel added at module1 with destination module3
\* find_path returns <<module1, module2, module3>>; and a parcel conveyed step
\* by step along the path find_path returned to its destination is deleted
\* from the store by the following sync, whose map does not contain it.
C12_RingScenario ==
    /\ (/\ procs.main.pc = "routed"
        /\ path_result.start = "module1"
        /\ path_result.target = "module3")
       => procs.main.path = <<"module1", "module2", "module3">>
    /\ ConveyedAlongPath
       => /\ Mentioning(store, procs.main.parcel_iri) = {}
          /\ procs.main.parcel_iri \notin DOMAIN parcels

\* C13: with no concurrent writer, the map a sync returns has an entry
\* P -> [current_position |-> M, destination |-> D] exactly when the store
\* holds "M possesses P" for a module M of the adjacency model and P has not
\* arrived (M is not P's destination), D being P's destination fact, or None
\* when it has none; nothing else is in the map.
C13_SyncMapReflectsStore ==
    last.op = "get_parcels" =>
        /\ \A P \in ParcelIris, M \in Keys(adjacency_matrix) :
              (P \in DOMAIN parcels /\ parcels[P].current_position = M)
              <=> (/\ <<M, hasPossession, P>> \in store
                   /\ M \notin Destinations(store, P))
        /\ \A P \in DOMAIN parcels :
              /\ P \in ParcelIris
              /\ parcels[P].current_position \in Keys(adjacency_matrix)
              /\ IF Destinations(store, P) = {}
                 THEN parcels[P].destination = None
                 ELSE parcels[P].destination \in Destinations(store, P)

\* The maps a sync could return on store S, over the choices the store's
\* answers and its failures leave open.
SyncMaps(S, adj) ==
    {get_parcels(S, adj, first, firstDest, failing).parcels :
        first \in FirstPossession(S, adj),
        firstDest \in FirstDestination(S),
        failing \in SUBSET ParcelIris}

\* C14: when add_parcel, convey or delete_parcel returns, the parcel map of
\* the instance is one a sync would return for the store as the operation
\* left it.
C14_MapRefreshedAfterMutation ==
    (/\ last.op \in {"add_parcel", "convey", "delete_parcel"}
     /\ last.raised = None)
    => parcels \in SyncMaps(store, adjacency_matrix)

\* C15: an instance starts with its counter at the number n of parcels its
\* first sync observed; a successful add_parcel mints "parcel<counter + 1>",
\* inserts facts of that parcel only, and increments the counter; no other
\* call changes the counter.  Hence the k-th successful add_parcel of an
\* instance mints "parcel<n + k>", and the ids an instance mints strictly
\* increase.
C15_MintedIdsFollowCounter ==
    [][/\ last'.op = "__init__" => parcel_counter' = Cardinality(DOMAIN parcels')
       /\ (last'.op = "add_parcel" /\ last'.raised = None) =>
            /\ parcel_counter' = parcel_counter + 1
            /\ \A dest \in Modules, start \in Modules :
                 AddParcelWith(dest, start, TRUE) =>
                   LET id == ParcelIri(parcel_counter + 1)
                       new == NewParcelTriples(id, dest, start)
                   IN /\ store' \ store \subseteq new
                      /\ (dest # start /\ id \notin ParcelsOf(store)) => new \subseteq store'
       /\ (last'.op \notin {"__init__", "add_parcel"} \/ last'.raised # None) =>
            parcel_counter' = parcel_counter]_vars

\* An instance constructed when parcel2 was the one parcel in the system
\* (n = 1) has, as its first add_parcel, minted parcel2 again: the parcel now
\* has the holder it had and the one it was added at.
C15_Witness ==
    /\ instances = 2
    /\ last.op = "add_parcel" /\ last.raised = None
    /\ parcel_counter = 2
    /\ ParcelIri(1) \notin ParcelsOf(store)
    /\ Cardinality(HoldersOf(store, ParcelIri(2))) = 2

\* C16: the adjacency model is immutable once built: no call of sync,
\* find_path, convey, add_parcel or delete_parcel, returning or raising,
\* changes the module set or a module's four edge slots.
C16_AdjacencyImmutable ==
    [][/\ adjacency_matrix' = adjacency_matrix
       /\ Keys(adjacency_matrix') = RingModules
       /\ \A m \in RingModules : Get(adjacency_matrix', m) = RingTopology[m]]_vars

\* The caller has added a parcel, found its path, conveyed it along the path,
\* synced and deleted the parcel, and the model is the one that was built.
C16_Witness ==
    /\ procs.main.pc = "deleted"
    /\ last.raised = None
    /\ procs.main.conveyed
    /\ Len(procs.main.path) > 1
    /\ procs.main.i = Len(procs.main.path)
    /\ adjacency_matrix = build_adjacency_matrix(TopologyFacts(RingTopology), RingBindingOrder)

\* C17: convey(A, B) called when no parcel occupies A is rejected as a usage
\* error and sends no update to the store.
C17_ConveyFromEmptyRejected ==
    [][last'.op = "convey" =>
       \A A \in ModuleArgs, B \in ModuleArgs, storeOk \in BOOLEAN :
          (/\ Occupants(store, A) = {}
           /\ ConveyWith(A, B, EmptyIri, storeOk))
          => /\ last'.raised = "ValueError"
             /\ ~last'.sent]_vars

\* C18: when the store does not accept the conditioned update of convey(A, B)
\* (a precondition failure, or the store is not reachable), convey raises
\* that error after the one attempt, and the facts of the store, the parcel
\* map and the id counter are what they were before the call.
C18_ConveyErrorPropagated ==
    [][last'.op = "convey" =>
       \A A \in Modules, B \in Modules, storeOk \in BOOLEAN :
         \A P \in ReadOccupant(store, A) :
           LET attempt == triples_update(store, triples_to_delete(A, P),
                                         triples_to_insert(B, P), TRUE, storeOk)
           IN (/\ HasEdge(adjacency_matrix, A, B)
               /\ attempt.raised # None
               /\ ConveyWith(A, B, P, storeOk))
              => /\ last'.raised = attempt.raised
                 /\ last'.sent
                 /\ store' = store
                 /\ parcels' = parcels
                 /\ parcel_counter' = parcel_counter]_vars

\* A convey has raised the store's error while every module held a parcel:
\* the parcels are where they were and in the parcel map.
C18_Witness ==
    /\ last.op = "convey" /\ last.sent
    /\ last.raised = "StoreError"
    /\ \A m \in Modules : Occupants(store, m) # {}
    /\ \E P \in DOMAIN parcels : <<parcels[P].current_position, hasPossession, P>> \in store
    /\ parcel_counter > 0

\* C19: when the deletion of an arrived parcel fails during the cleanup of a
\* sync, the sync does not raise: every other arrived parcel is still deleted
\* from the store and dropped from the map, and the map is returned with the
\* entries of the parcels that have not arrived.
C19_CleanupContinuesAfterFailure ==
    [][last'.op = "get_parcels" =>
       \A first \in FirstPossession(store, adjacency_matrix),
          firstDest \in FirstDestination(store) :
         LET pm == ScanModules(store, adjacency_matrix, 1, first, firstDest, EmptyMap)
             arrived == parcels_to_delete(pm)
         IN \A failing \in SUBSET arrived :
              (/\ failing # {}
               /\ GetParcelsWith(first, firstDest, failing, "get_parcels"))
              => /\ last'.raised = None
                 /\ \A Q \in arrived \ failing :
                      /\ Mentioning(store', Q) = {}
                      /\ Q \notin DOMAIN parcels'
                 /\ \A P \in DOMAIN pm \ arrived :
                      P \in DOMAIN parcels' /\ parcels'[P] = pm[P]]_vars

\* A sync has returned after deleting an arrived parcel, the deletion of
\* another arrived parcel having failed.
C19_Witness ==
    /\ last.op = "get_parcels" /\ last.raised = None
    /\ last.sent
    /\ \E P \in DOMAIN parcels : parcels[P].current_position = parcels[P].destination

\* C20: if a query of the store fails while the adjacency model is built (the
\* module query or a per-direction query), the construction fails with an
\* error and no adjacency model is installed; a model that is installed is
\* the complete one, with every module of the system and every edge slot as
\* the store holds it.
C20_NoPartialModel ==
    last.op = "__init__" =>
        /\ procs.client.failAt # 0 => (last.raised # None /\ instances = 0)
        /\ instances = 0 => adjacency_matrix = <<>>
        /\ instances > 0 =>
             adjacency_matrix = build_adjacency_matrix(store, binding_order)

\* The sequence has no element twice.
NoRepeat(seq) == \A i \in 1..Len(seq), j \in 1..Len(seq) : seq[i] = seq[j] => i = j

\* C21: every path find_path(S, T) returns is a valid path of the graph: it
\* starts at S, ends at T, each consecutive pair is a directed edge of the
\* adjacency model, and no module occurs twice.
C21_ReturnedPathIsValid ==
    (/\ last.op = "find_path"
     /\ path_result.raised = None
     /\ ~path_result.none)
    => LET path == path_result.path
       IN /\ Len(path) >= 1
          /\ path[1] = path_result.start
          /\ path[Len(path)] = path_result.target
          /\ \A i \in 1..(Len(path) - 1) : HasEdge(adjacency_matrix, path[i], path[i + 1])
          /\ \A i \in 1..Len(path) : path[i] \in Keys(adjacency_matrix)
          /\ NoRepeat(path)

\* find_path has returned a path over all three modules in a model where the
\* target has an edge back to the start.
C21_Witness ==
    /\ last.op = "find_path"
    /\ path_result.raised = None /\ ~path_result.none
    /\ Len(path_result.path) = 3
    /\ HasEdge(adjacency_matrix, path_result.target, path_result.start)

\* C22: for every start and target that are modules of the adjacency model,
\* find_path returns a path or returns no path and never raises, also when a
\* slot of some module names an identifier that is no module of the model.
C22_FindPathNeverRaises ==
    (/\ last.op = "find_path"
     /\ path_result.start \in Keys(adjacency_matrix)
     /\ path_result.target \in Keys(adjacency_matrix))
    => /\ path_result.raised = None
       /\ path_result.none \/ Len(path_result.path) >= 1

\* The calls that end with a sync whose map they leave in self.parcels.
SyncingOps == {"__init__", "get_parcels", "add_parcel"}

\* C23: a parcel with no destination fact is recorded by a sync with its
\* destination absent, no fact of it is removed by the arrival cleanup, and
\* as long as a module of the model possesses it (it has not been deleted) it
\* is in the map every sync returns, whatever conveys and syncs came before.
C23_NoDestinationParcelStays ==
    [][(/\ last'.op \in SyncingOps
        /\ last'.raised = None
        /\ Destinations(store', NoDestinationParcel) = {})
       => /\ NoDestinationParcel \in DOMAIN parcels'
             => parcels'[NoDestinationParcel].destination = None
          /\ Mentioning(store, NoDestinationParcel) \subseteq store'
          /\ (\E M \in Keys(adjacency_matrix') :
                 <<M, hasPossession, NoDestinationParcel>> \in store')
             => NoDestinationParcel \in DOMAIN parcels']_vars

\* C24: the id counter is local to the instance and monotonic: an add_parcel
\* whose batch insert succeeds increments it by exactly one, one whose insert
\* fails leaves it (and the store) unchanged, and sync, convey, delete_parcel
\* and the arrival cleanup never change it.
C24_CounterProcessLocal ==
    [][/\ (last'.op = "add_parcel" /\ last'.raised = None)
          => parcel_counter' = parcel_counter + 1
       /\ (last'.op = "add_parcel" /\ last'.raised # None)
          => (parcel_counter' = parcel_counter /\ store' = store)
       /\ last'.op \in {"get_parcels", "convey", "delete_parcel"}
          => parcel_counter' = parcel_counter
       /\ parcel_counter' >= parcel_counter]_vars

\* A sync has returned after its cleanup deleted the last parcel of the
\* store, and the counter still tells the two parcels the instance added.
C24_Witness ==
    /\ last.op = "get_parcels" /\ last.sent
    /\ parcel_counter = 2
    /\ ParcelsOf(store) = {}
    /\ parcels = EmptyMap

\* C25: a sync builds its map from sequential reads, one per module, each of
\* the store as it is when that module is reached: a read adds the entry of a
\* parcel the module possesses at that moment and leaves the entries of the
\* modules read before as they are.  A sync during which the store did not
\* change returns a map of that store; one that another process's convey
\* interleaves with need not return the map of any store that existed.
C25_SyncReadsSequentially ==
    [][/\ (/\ procs["p1"].pc = "scan"
           /\ procs'["p1"].pc = "scan"
           /\ procs'["p1"].i = procs["p1"].i + 1)
          => LET module == adjacency_matrix[procs["p1"].i][1]
                 held == {P \in ParcelIris : <<module, hasPossession, P>> \in store}
             IN IF held = {} THEN parcels' = parcels
                ELSE \E P \in held :
                       /\ DOMAIN parcels' = DOMAIN parcels \cup {P}
                       /\ parcels'[P].current_position = module
                       /\ \A Q \in DOMAIN parcels \ {P} : parcels'[Q] = parcels[Q]
       /\ (/\ procs["p1"].pc = "cleanup"
           /\ procs'["p1"].pc = "idle"
           /\ procs["p1"].seen = {store})
          => parcels' \in SyncMaps(store, adjacency_matrix)]_vars

\* A sync is about to return a map that is the map of no store that existed
\* while it ran: it has no entry for the one parcel of the store, which was
\* on a module of the model throughout and at its destination never.
C25_Witness ==
    /\ procs["p1"].pc = "cleanup" /\ procs["p1"].todo = {}
    /\ procs["p1"].op = "get_parcels"
    /\ \A S \in procs["p1"].seen : parcels \notin SyncMaps(S, adjacency_matrix)
    /\ \E P \in ParcelIris :
         /\ P \notin DOMAIN parcels
         /\ \A S \in procs["p1"].seen :
              /\ ParcelsOf(S) = {P}
              /\ \E M \in Keys(adjacency_matrix) :
                   /\ <<M, hasPossession, P>> \in S
                   /\ M \notin Destinations(S, P)

\* C26: when delete_parcel(id), called by the user or by the arrival cleanup
\* of a sync, returns successfully, no fact mentioning id is left in the
\* store, under every interleaving of its two reads and its batch delete with
\* another process's convey of the same parcel.
C26_DeleteLeavesNoFact ==
    [][(/\ procs["p1"].pc = "delete_send"
        /\ procs'["p1"].pc # "delete_send"
        /\ \/ procs["p1"].caller = "user" /\ last'.raised = None
           \/ procs["p1"].caller = "get_parcels" /\ procs'["p1"].raised = None)
       => Mentioning(store', procs["p1"].parcel_iri) = {}]_vars

\* C27: the two possession relations are inverse of each other in every
\* store reached by interleaved add_parcel, convey, delete_parcel and sync
\* calls of the processes: "M possesses P" is there exactly when
\* "P is-possessed-by M" is.
C27_PossessionInverse ==
    \A t \in store :
      /\ t[2] = hasPossession => <<t[3], isPossessedBy, t[1]>> \in store
      /\ t[2] = isPossessedBy => <<t[3], hasPossession, t[1]>> \in store

\* C28: convey creates possession facts only for a parcel the store records
\* on the source module.  When A has no occupant, the update of convey(A, B)
\* over an edge names the empty identifier and is conditioned on the old
\* facts; the store rejects it and is left unchanged, and no fact mentioning
\* the empty identifier is ever in the store.
C28_NoFactsForEmptyId ==
    [][/\ last'.op = "convey" =>
            /\ \A A \in ModuleArgs, B \in ModuleArgs, storeOk \in BOOLEAN :
                 (/\ Occupants(store, A) = {}
                  /\ HasEdge(adjacency_matrix, A, B)
                  /\ ConveyWith(A, B, EmptyIri, storeOk))
                 => /\ last'.sent
                    /\ last'.raised = IF storeOk THEN "PreconditionError" ELSE "StoreError"
                    /\ store' = store
            /\ \A t \in store' \ store :
                 \E A \in Modules, B \in Modules, P \in ParcelIris :
                   /\ <<A, hasPossession, P>> \in store
                   /\ <<P, isPossessedBy, A>> \in store
                   /\ t \in {<<B, hasPossession, P>>, <<P, isPossessedBy, B>>}
       /\ \A t \in store' : t[1] # EmptyIri /\ t[3] # EmptyIri]_vars

\* A convey from a module without occupant, over an edge, was sent and
\* rejected by the store for its missing old facts, a parcel being elsewhere.
C28_Witness ==
    /\ last.op = "convey" /\ last.sent
    /\ last.raised = "PreconditionError"
    /\ ParcelsOf(store) # {}
    /\ Mentioning(store, EmptyIri) = {}

\* The parcels a sync can discover: those some module of the adjacency model
\* possesses by a "possesses" fact.
Discoverable(S, adj) ==
    {t[3] : t \in {u \in S : u[2] = hasPossession /\ u[1] \in Keys(adj)}}

\* C29: a sync discovers parcels only through the "possesses" facts of the
\* modules of the adjacency model.  A parcel that has only an "is-possessed-by"
\* fact, or that sits on a module outside the model, is in no map a sync
\* returns, loses no fact to the arrival cleanup, and is not counted when a
\* new instance seeds its id counter.
C29_SyncDiscoversByPossesses ==
    [][(last'.op \in SyncingOps /\ last'.raised = None)
       => /\ \A P \in DOMAIN parcels' :
               /\ parcels'[P].current_position \in Keys(adjacency_matrix')
               /\ P \in Discoverable(store', adjacency_matrix')
          /\ \A P \in ParcelsOf(store) \ Discoverable(store, adjacency_matrix') :
               (last'.op = "add_parcel" => P # MintedIri(parcel_counter))
               => /\ Mentioning(store, P) \subseteq store'
                  /\ P \notin DOMAIN parcels'
          /\ last'.op = "__init__"
             => /\ parcel_counter' = Cardinality(DOMAIN parcels')
                /\ parcel_counter' <= Cardinality(Discoverable(store, adjacency_matrix'))]_vars

\* A new instance has been constructed on a store that holds a parcel on a
\* module of the model and parcel2 with its one "is-possessed-by" fact: the
\* map has the former only and the counter is seeded without parcel2.
C29_Witness ==
    /\ instances = 2
    /\ last.op = "__init__"
    /\ \E m \in Modules : Mentioning(store, ParcelIri(2)) = add_incorrect_data(m)
    /\ DOMAIN parcels # {}
    /\ ParcelIri(2) \notin DOMAIN parcels
    /\ parcel_counter < Cardinality(ParcelsOf(store))

\* C30: find_path terminates on every adjacency model and every pair of its
\* modules, directed cycles and self-loops included: the search expands each
\* module at most once, and the chain of predecessors followed from the
\* target has no module twice and ends at the start.
C30_FindPathTerminates ==
    (/\ last.op = "find_path"
     /\ path_result.start \in Keys(adjacency_matrix)
     /\ path_result.target \in Keys(adjacency_matrix)
     /\ path_result.start # path_result.target)
    => LET d == Dijkstra(adjacency_matrix, path_result.start, path_result.target)
       IN /\ NoRepeat(d.expanded)
          /\ \A k \in 1..Len(d.expanded) : d.expanded[k] \in d.visited
          /\ Cardinality(d.visited) <= Len(adjacency_matrix)
          /\ (d.raised = None /\ d.distances[path_result.target] # Infinity)
             => LET chain == PathTo(d.previous, path_result.target,
                                    Len(adjacency_matrix) + 1)
                IN /\ NoRepeat(chain)
                   /\ Len(chain) <= Len(adjacency_matrix)
                   /\ chain[1] = path_result.start
                   /\ d.previous[path_result.start] = None
                   /\ path_result.path = chain

\* find_path has returned a path over three modules on a model in which the
\* start has an edge to itself and the second module an edge back to the
\* start.
C30_Witness ==
    /\ last.op = "find_path"
    /\ path_result.raised = None /\ ~path_result.none
    /\ Len(path_result.path) = 3
    /\ HasEdge(adjacency_matrix, path_result.start, path_result.start)
    /\ HasEdge(adjacency_matrix, path_result.path[2], path_result.start)

====
